---- MODULE Spec2Model ----
(***************************************************************************)
(* create-filament: the scaffolding CLI of src/src/index.ts.               *)
(*                                                                         *)
(* The model follows main(): the directory check on the positional         *)
(* argument, promptForConfig (questions, validation, cancellation and the  *)
(* resolution of the answers into a ProjectConfig), the second directory   *)
(* check, and the nine generation steps run by the fail-fast loop.         *)
(*                                                                         *)
(* Strings the code inspects character by character (project names, the    *)
(* command-line words) are tuples of one-character strings.  A JavaScript  *)
(* value that may be undefined is a set: {} is undefined, {v} is v.        *)
(***************************************************************************)
EXTENDS Integers, Sequences, FiniteSets, TLC

(***************************************************************************)
(* Bounds of the exploration.                                              *)
(***************************************************************************)
\* number of operations of a step that may complete before the one that throws
MaxPartial == 1
\* number of entries a user ticks in the "Additional features" multiselect
\* the last step whose failure is followed by a second run started without a
\* name on the command line
MaxRerunStep == 2

MaxSelected == 1

(***************************************************************************)
(* JavaScript optional values.                                             *)
(***************************************************************************)
Undefined == {}

Some(v) == {v}

IsDefined(o) == o # {}

Val(o) == CHOOSE v \in o : TRUE

\* truthiness of an optional boolean (undefined and false are falsy)
Truthy(o) == o = {TRUE}

(***************************************************************************)
(* Character classes of the pattern /^[a-z0-9-_]+$/ (index.ts:55).         *)
(***************************************************************************)
LowerCase ==
  {"a","b","c","d","e","f","g","h","i","j","k","l","m",
   "n","o","p","q","r","s","t","u","v","w","x","y","z"}

Digits == {"0","1","2","3","4","5","6","7","8","9"}

NameChars == LowerCase \cup Digits \cup {"-", "_"}

\* the regular expression test of the prompt's validate callback
MatchesNamePattern(value) ==
  /\ Len(value) > 0
  /\ \A i \in 1..Len(value) : value[i] \in NameChars

\* validate: TRUE, or the message shown to the user
RequiredMsg == "Project name is required"

PatternMsg == "Project name can only contain lowercase letters, numbers, hyphens, and underscores"

validate(value) ==
  IF Len(value) = 0 THEN Some(RequiredMsg)
  ELSE IF ~MatchesNamePattern(value) THEN Some(PatternMsg)
  ELSE Undefined

(***************************************************************************)
(* The words used on the command line and at the name prompt.              *)
(***************************************************************************)
NameMyApi2 == <<"m","y","-","a","p","i","_","2">>

NameMyAppCaps == <<"M","y"," ","A","p","p">>

NameEmpty == <<>>

Names == {NameMyApi2, NameMyAppCaps}

\* what a user may type at the "Project name:" question
TypedNames == Names \cup {NameEmpty}

FlagTemplateFull == <<"-","-","t","e","m","p","l","a","t","e","=","f","u","l","l">>

FlagDocker == <<"-","-","d","o","c","k","e","r">>

FlagDockerCompose == <<"-","-","d","o","c","k","e","r","-","c","o","m","p","o","s","e">>

FlagCiGithub == <<"-","-","c","i","=","g","i","t","h","u","b">>

FlagPmPnpm == <<"-","-","p","m","=","p","n","p","m">>

FlagGit == <<"-","-","g","i","t">>

FlagNoGitCommit == <<"-","-","n","o","-","g","i","t","-","c","o","m","m","i","t">>

FlagNoInstall == <<"-","-","n","o","-","i","n","s","t","a","l","l">>

\* the documented options (README, "Command-Line Options")
Flags ==
  {FlagTemplateFull, FlagDocker, FlagDockerCompose, FlagCiGithub,
   FlagPmPnpm, FlagGit, FlagNoGitCommit, FlagNoInstall}

(***************************************************************************)
(* ProjectConfig and the raw answers.                                      *)
(***************************************************************************)
Templates == {"minimal", "api", "full"}

PackageManagers == {"npm", "pnpm", "yarn", "bun"}

\* the values of the multiselect's choices (index.ts:79-86)
FeatureTokens == {"docker", "dockerCompose", "ci-github", "openapi", "auth", "observability"}

\* answers.additionalFeatures.includes(token); arrays of distinct values are sets
Includes(arr, token) == token \in arr

\* index.ts:123-130
ZeroFeatures ==
  [docker |-> FALSE, dockerCompose |-> FALSE, ci |-> "none",
   openapi |-> FALSE, auth |-> FALSE, observability |-> FALSE]

\* index.ts:132-138
ApplyTierDefaults(features, template) ==
  IF template = "api" \/ template = "full"
  THEN [features EXCEPT !.docker = TRUE, !.dockerCompose = TRUE, !.ci = "github",
                        !.openapi = TRUE, !.auth = TRUE]
  ELSE features

\* the full tier turning the GitLab pipeline on
ApplyFullTierGitlab(features, template) ==
  IF template = "full"
  THEN [features EXCEPT !.observability = TRUE, !.ci = "gitlab"]
  ELSE features

\* index.ts:140-142
ApplyFullTier(features, template) ==
  IF template = "full" THEN [features EXCEPT !.observability = TRUE] ELSE features

\* the selection applied to every tier
ApplyAdditionalFeaturesAnyTier(features, template, additionalFeatures) ==
  IF IsDefined(additionalFeatures)
  THEN LET sel == Val(additionalFeatures) IN
       [docker |-> Includes(sel, "docker"),
        dockerCompose |-> Includes(sel, "dockerCompose"),
        ci |-> IF Includes(sel, "ci-github") THEN "github" ELSE "none",
        openapi |-> Includes(sel, "openapi"),
        auth |-> Includes(sel, "auth"),
        observability |-> Includes(sel, "observability")]
  ELSE features

\* the Docker selection also switching Docker Compose on
ApplyAdditionalFeaturesCompose(features, template, additionalFeatures) ==
  IF template = "minimal" /\ IsDefined(additionalFeatures)
  THEN LET sel == Val(additionalFeatures) IN
       [docker |-> Includes(sel, "docker"),
        dockerCompose |-> Includes(sel, "docker") \/ Includes(sel, "dockerCompose"),
        ci |-> IF Includes(sel, "ci-github") THEN "github" ELSE "none",
        openapi |-> Includes(sel, "openapi"),
        auth |-> Includes(sel, "auth"),
        observability |-> Includes(sel, "observability")]
  ELSE features

\* index.ts:145-152; an array, even an empty one, is truthy
ApplyAdditionalFeatures(features, template, additionalFeatures) ==
  IF template = "minimal" /\ IsDefined(additionalFeatures)
  THEN LET sel == Val(additionalFeatures) IN
       [docker |-> Includes(sel, "docker"),
        dockerCompose |-> Includes(sel, "dockerCompose"),
        ci |-> IF Includes(sel, "ci-github") THEN "github" ELSE "none",
        openapi |-> Includes(sel, "openapi"),
        auth |-> Includes(sel, "auth"),
        observability |-> Includes(sel, "observability")]
  ELSE features

\* index.ts:122-152
ResolveFeatures(answers) ==
  ApplyAdditionalFeatures(
    ApplyFullTier(ApplyTierDefaults(ZeroFeatures, answers.template), answers.template),
    answers.template, answers.additionalFeatures)

\* projectName || answers.name: the empty string and undefined are falsy
NameOr(projectName, answeredName) ==
  IF IsDefined(projectName) /\ Len(Val(projectName)) > 0 THEN projectName ELSE answeredName

\* the gitCommit field of the returned record (index.ts:160)
ResolveGitCommit(answers) == answers.gitCommit

\* the install field of the returned record (index.ts:161)
ResolveInstall(answers) == TRUE

\* index.ts:154-162
ResolveConfig(projectName, answers) ==
  [name |-> NameOr(projectName, answers.name),
   template |-> answers.template,
   features |-> ResolveFeatures(answers),
   packageManager |-> answers.packageManager,
   git |-> answers.git,
   gitCommit |-> ResolveGitCommit(answers),
   install |-> ResolveInstall(answers)]

NoAnswers ==
  [name |-> Undefined, template |-> "minimal", additionalFeatures |-> Undefined,
   packageManager |-> "npm", git |-> FALSE, gitCommit |-> Undefined]



(***************************************************************************)
(* State.                                                                  *)
(***************************************************************************)
VARIABLES
  argv,         \* process.argv.slice(2): a sequence of words
  disk,         \* entries of the working directory: <<project name, path>>
  modes,        \* the entries of disk that are executable
  contents,     \* what the files of disk hold: <<entry, content>>
  pc,           \* position of main()
  promptError,  \* validation message shown at the name question
  answers,      \* the record returned by prompts()
  config,       \* the ProjectConfig returned by promptForConfig, undefined before
  stepIdx,      \* index of the step the loop of main() is at
  invoked,      \* the steps invoked so far, in order
  returned,     \* what each invoked step returned, in the same order
  cmds,         \* the commands handed to execSync, in order
  raised,       \* the exceptions thrown inside the steps
  retry,        \* a step called a second time, with the disk before that call
  out,          \* console and spinner output, in order
  exitCode      \* process exit code, -1 while running

vars ==
  <<argv, disk, modes, contents, pc, promptError, answers, config, stepIdx, invoked,
    returned, cmds, raised, retry, out, exitCode>>

Running == -1

\* const projectName = args[0] (index.ts:1037)
ProjectName == IF Len(argv) > 0 THEN Some(argv[1]) ELSE Undefined

\* the resolved configuration, and the directory name it gives the project
Cfg == Val(config)

ProjectDir == Val(Cfg.name)

\* a string used as a condition: undefined and "" are falsy
NonEmpty(name) == IsDefined(name) /\ Len(Val(name)) > 0

Root == "."

\* a check that never finds the directory
existsSyncNever(d, name) == FALSE

\* existsSync of the project directory of that name, relative to the cwd
existsSync(d, name) == <<name, Root>> \in d

(***************************************************************************)
(* The prompt front-end (index.ts:44-120).                                 *)
(***************************************************************************)
Selections == {S \in SUBSET FeatureTokens : Cardinality(S) <= MaxSelected}

\* the name question is asked only without a positional name, and prompts
\* submits a text answer only once validate returns true
NameAnswers(projectName) ==
  IF NonEmpty(projectName) THEN {Undefined}
  ELSE {Some(n) : n \in {t \in TypedNames : validate(t) = Undefined}}

\* type: prev === 'minimal' ? 'multiselect' : null
FeatureAnswers(template) ==
  IF template = "minimal" THEN {Some(S) : S \in Selections} ELSE {Undefined}

\* type: prev ? 'confirm' : null
GitCommitAnswers(git) ==
  IF git THEN {Some(TRUE), Some(FALSE)} ELSE {Undefined}

\* the records prompts() can return: a skipped question leaves no key
AskedAnswers(projectName) ==
  UNION {
    {[name |-> n, template |-> t, additionalFeatures |-> f,
      packageManager |-> p, git |-> g, gitCommit |-> c] :
       n \in NameAnswers(projectName), f \in FeatureAnswers(t),
       p \in PackageManagers, c \in GitCommitAnswers(g)} :
    t \in Templates, g \in BOOLEAN}

(***************************************************************************)
(* Console output.                                                         *)
(***************************************************************************)
DirExistsMsg == "Directory already exists"

CancelledMsg == "Operation cancelled"

SetupFailedMsg == "Setup failed"

SuccessMsg == "Success! Created"

ErrorDetail == "<error>"

ManualInstallMsg == "You can install dependencies manually by running:"

\* `cd ${config.name} && ${config.packageManager} install`
ManualInstallCmd(cfg) == cfg.packageManager \o " install"

(***************************************************************************)
(* main() up to the pipeline (index.ts:1033-1052).                         *)
(***************************************************************************)
Exit(code) ==
  /\ pc' = "exited"
  /\ exitCode' = code

\* index.ts:1036-1043
MainStart ==
  /\ pc = "main"
  /\ IF NonEmpty(ProjectName) /\ existsSync(disk, Val(ProjectName))
     THEN /\ out' = Append(out, DirExistsMsg)
          /\ Exit(1)
     ELSE /\ pc' = "prompt"
          /\ UNCHANGED <<out, exitCode>>
  /\ UNCHANGED <<retry, raised, argv, disk, modes, contents, promptError, answers, config, stepIdx, invoked, returned, cmds>>

\* the validate callback rejects the value handed to it; the question stays
\* open and shows the message
PromptReject ==
  /\ pc = "prompt"
  /\ ~NonEmpty(ProjectName)
  /\ \E typed \in TypedNames :
       /\ validate(typed) # Undefined
       /\ promptError' = validate(typed)
  /\ promptError' # promptError
  /\ UNCHANGED <<retry, raised, argv, disk, modes, contents, pc, answers, config, stepIdx, invoked, returned, cmds, out, exitCode>>

\* onCancel printing its message without ending the process: prompts returns
\* the answers given so far and they are resolved
PromptCancelReturns ==
  /\ pc = "prompt"
  /\ out' = Append(out, CancelledMsg)
  /\ config' = Some(ResolveConfig(ProjectName, NoAnswers))
  /\ pc' = "prompted"
  /\ UNCHANGED <<retry, raised, argv, disk, modes, contents, promptError, answers, stepIdx, invoked,
                 returned, cmds, exitCode>>

\* onCancel (index.ts:116-119)
PromptCancel ==
  /\ pc = "prompt"
  /\ out' = Append(out, CancelledMsg)
  /\ Exit(0)
  /\ UNCHANGED <<retry, raised, argv, disk, modes, contents, promptError, answers, config, stepIdx, invoked, returned, cmds>>

\* promptForConfig returns (index.ts:115-163)
PromptAnswer ==
  /\ pc = "prompt"
  /\ \E a \in AskedAnswers(ProjectName) :
       /\ answers' = a
       /\ config' = Some(ResolveConfig(ProjectName, a))
  /\ promptError' = Undefined
  /\ pc' = "prompted"
  /\ UNCHANGED <<retry, raised, argv, disk, modes, contents, stepIdx, invoked, returned, cmds, out, exitCode>>

\* the second check left out
PostPromptCheckOmitted ==
  /\ pc = "prompted"
  /\ pc' = "steps"
  /\ stepIdx' = 1
  /\ UNCHANGED <<retry, raised, argv, disk, modes, contents, promptError, answers, config, invoked, returned, cmds,
                 out, exitCode>>

\* index.ts:1046-1052
PostPromptCheck ==
  /\ pc = "prompted"
  /\ IF existsSync(disk, ProjectDir)
     THEN /\ out' = Append(out, DirExistsMsg)
          /\ Exit(1)
          /\ UNCHANGED stepIdx
     ELSE /\ pc' = "steps"
          /\ stepIdx' = 1
          /\ UNCHANGED <<out, exitCode>>
  /\ UNCHANGED <<retry, raised, argv, disk, modes, contents, promptError, answers, config, invoked, returned, cmds>>


(***************************************************************************)
(* File-system and subprocess operations of the steps.                     *)
(*                                                                         *)
(* An operation removes and adds entries below the project directory,      *)
(* hands commands to execSync and makes entries executable.  throws says   *)
(* whether its exception reaches the step's catch block.                   *)
(***************************************************************************)
NoOp ==
  [rm |-> {}, add |-> {}, data |-> {}, cmds |-> <<>>, exec |-> {}, throws |-> TRUE,
   refuses |-> {}, caught |-> {}]

FsOp(paths) == [NoOp EXCEPT !.add = paths]

mkdirSync(paths) == FsOp(paths)

\* a file written with its content, a set of entries
writeFileSync(path, content) == [NoOp EXCEPT !.add = {path}, !.data = {<<path, content>>}]

\* a file whose text does not depend on the configuration
Static == {<<"static">>}

\* a template tree copied byte for byte: its directories and its files
cpSync(tree, files, tier) ==
  [NoOp EXCEPT !.add = tree, !.data = {<<f, {<<"template", tier, f>>}>> : f \in files}]

ExecOp(command, removed, added) ==
  [NoOp EXCEPT !.rm = removed, !.add = added, !.cmds = <<command>>]

\* the skeleton of createProjectStructure (index.ts:170-178)
SkeletonSrc == {"src", "src/meta", "src/middleware", "src/routes", "src/handlers", "src/config"}

SkeletonTests == {"tests", "tests/integration", "tests/unit"}

\* the tree of a template directory (templates/<tier>/src, templates/<tier>/tests)
TemplateSrc == {"src", "src/index.ts", "src/meta", "src/meta/defaults.ts"}

TemplateTests == {"tests", "tests/integration", "tests/integration/example.test.ts"}

TemplateSrcFiles == {"src/index.ts", "src/meta/defaults.ts"}

TemplateTestsFiles == {"tests/integration/example.test.ts"}

UnderSrc == SkeletonSrc \cup TemplateSrc

UnderTests == SkeletonTests \cup TemplateTests

HasSpace(name) == \E i \in 1..Len(name) : name[i] = " "

\* execSync(`rm -rf ${path}`): the shell splits an unquoted path at a space,
\* and the words then name nothing below the project directory
RmRf(name, command, subtree) ==
  ExecOp(command, IF HasSpace(name) THEN {} ELSE subtree, {})

ChmodPreCommit == "chmod +x .husky/pre-commit"

ChmodCommitMsg == "chmod +x .husky/commit-msg"

\* the try block around the two chmod calls (index.ts:469-474): the first
\* failure skips the second call and is ignored
ChmodHooks(works) ==
  IF works
  THEN [NoOp EXCEPT !.cmds = <<ChmodPreCommit, ChmodCommitMsg>>,
                    !.exec = {".husky/pre-commit", ".husky/commit-msg"},
                    !.throws = FALSE]
  ELSE [NoOp EXCEPT !.cmds = <<ChmodPreCommit>>, !.throws = FALSE,
                    !.caught = {<<ChmodPreCommit>>}]

In(name, paths) == {<<name, p>> : p \in paths}

RECURSIVE DiskAfter(_, _, _, _)
DiskAfter(d, name, ops, n) ==
  IF n = 0 THEN d
  ELSE (DiskAfter(d, name, ops, n - 1) \ In(name, ops[n].rm)) \cup In(name, ops[n].add)

RECURSIVE ModesAfter(_, _, _, _)
ModesAfter(m, name, ops, n) ==
  IF n = 0 THEN m
  ELSE (ModesAfter(m, name, ops, n - 1) \ In(name, ops[n].rm)) \cup In(name, ops[n].exec)

\* the contents once the first n operations are done: a removed or rewritten
\* file loses what it held
RECURSIVE ContentsAfter(_, _, _, _)
ContentsAfter(c, name, ops, n) ==
  IF n = 0 THEN c
  ELSE LET gone == In(name, ops[n].rm \cup {e[1] : e \in ops[n].data}) IN
       {e \in ContentsAfter(c, name, ops, n - 1) : e[1] \notin gone}
         \cup {<<<<name, e[1]>>, e[2]>> : e \in ops[n].data}

RECURSIVE CmdsAfter(_, _, _)
CmdsAfter(c, ops, n) ==
  IF n = 0 THEN c ELSE CmdsAfter(c, ops, n - 1) \o ops[n].cmds

\* an exception: the step it was thrown in, the command that failed (none for
\* a file-system call), whether an inner catch ignored it, and whether the
\* command itself refused rather than the environment failing
Exception(k, command, ignored, refused) ==
  [step |-> k, cmds |-> command, ignored |-> ignored, refused |-> refused]

RECURSIVE RaisedAfter(_, _, _, _)
RaisedAfter(r, k, ops, n) ==
  IF n = 0 THEN r
  ELSE RaisedAfter(r, k, ops, n - 1)
         \cup {Exception(k, c, TRUE, FALSE) : c \in ops[n].caught}

\* the command of the operation cannot succeed on this disk
Refused(d, name, op) == In(name, op.refuses) \cap d # {}

\* what a throwing operation leaves behind: a file-system call nothing, a
\* subprocess any part of its output
PartialOutputs(op) == IF Len(op.cmds) > 0 THEN SUBSET op.add ELSE {{}}

(***************************************************************************)
(* What the generated files hold.                                          *)
(***************************************************************************)
\* index.ts:236-309
PackageJsonContent(cfg) ==
  {<<"name">> \o Val(cfg.name),
   <<"dependencies", "filamentjs">>, <<"dependencies", "pino">>,
   <<"dependencies", "pino-pretty">>,
   <<"devDependencies", "@types/node">>, <<"devDependencies", "typescript">>,
   <<"devDependencies", "tsx">>, <<"devDependencies", "eslint">>,
   <<"devDependencies", "@typescript-eslint/parser">>,
   <<"devDependencies", "@typescript-eslint/eslint-plugin">>,
   <<"devDependencies", "prettier">>, <<"devDependencies", "husky">>,
   <<"devDependencies", "lint-staged">>, <<"devDependencies", "@commitlint/cli">>,
   <<"devDependencies", "@commitlint/config-conventional">>,
   <<"devDependencies", "depcheck">>, <<"devDependencies", "test-battery">>}
  \cup (IF cfg.features.auth
        THEN {<<"dependencies", "redis">>, <<"dependencies", "jsonwebtoken">>,
              <<"devDependencies", "@types/jsonwebtoken">>}
        ELSE {})
  \cup (IF cfg.features.openapi
        THEN {<<"dependencies", "swagger-ui-express">>,
              <<"devDependencies", "@types/swagger-ui-express">>}
        ELSE {})
  \cup (IF cfg.features.observability
        THEN {<<"dependencies", "@opentelemetry/api">>,
              <<"dependencies", "@opentelemetry/sdk-node">>,
              <<"dependencies", "prom-client">>}
        ELSE {})
  \cup (IF cfg.features.docker
        THEN {<<"scripts", "docker:build">>, <<"scripts", "docker:run">>} ELSE {})
  \cup (IF cfg.features.dockerCompose
        THEN {<<"scripts", "docker:up">>, <<"scripts", "docker:down">>} ELSE {})

\* index.ts:419-444
EnvExampleContent(cfg) ==
  {<<"PORT">>, <<"NODE_ENV">>, <<"LOG_LEVEL">>}
  \cup (IF cfg.features.auth
        THEN {<<"JWT_SECRET">>, <<"JWT_EXPIRY">>, <<"REDIS_URL">>} ELSE {})
  \cup (IF cfg.features.observability THEN {<<"OTEL_EXPORTER_OTLP_ENDPOINT">>} ELSE {})

\* the instructions of the Dockerfile (index.ts:512-555)
DockerfileContent ==
  {<<"FROM", "node:20-alpine", "AS", "builder">>, <<"WORKDIR", "/app">>,
   <<"COPY", "package*.json", "./">>, <<"RUN", "npm ci">>, <<"COPY", ".", ".">>,
   <<"RUN", "npm run build">>, <<"FROM", "node:20-alpine">>,
   <<"RUN", "npm ci --production">>, <<"COPY", "--from=builder", "/app/dist", "./dist">>,
   <<"RUN", "addgroup nodejs && adduser nodejs">>, <<"USER", "nodejs">>,
   <<"EXPOSE", "3000">>, <<"HEALTHCHECK", "CMD", "node">>,
   <<"CMD", "node", "dist/index.js">>}

\* the cache service and the dependency on it put in whatever features.auth is
ComposeContentAlwaysRedis(cfg) ==
  {<<"version", "3.8">>, <<"services", "app">>, <<"services", "app", "build", ".">>,
   <<"services", "app", "depends_on">>, <<"services", "app", "depends_on", "redis">>,
   <<"services", "redis">>, <<"services", "redis", "image", "redis:7-alpine">>,
   <<"volumes", "redis-data">>}

\* the compose definition as the paths of its keys (index.ts:576-605)
ComposeContent(cfg) ==
  {<<"version", "3.8">>, <<"services", "app">>, <<"services", "app", "build", ".">>,
   <<"services", "app", "ports", "3000:3000">>,
   <<"services", "app", "environment", "NODE_ENV=production">>,
   <<"services", "app", "environment", "LOG_LEVEL=info">>,
   <<"services", "app", "depends_on">>,
   <<"services", "app", "restart", "unless-stopped">>}
  \cup (IF cfg.features.auth
        THEN {<<"services", "app", "environment", "REDIS_URL=redis://redis:6379">>,
              <<"services", "app", "depends_on", "redis">>,
              <<"services", "redis">>, <<"services", "redis", "image", "redis:7-alpine">>,
              <<"services", "redis", "ports", "6379:6379">>,
              <<"services", "redis", "volumes", "redis-data:/data">>,
              <<"services", "redis", "restart", "unless-stopped">>,
              <<"volumes", "redis-data">>}
        ELSE {})

\* the workflow as the paths of its keys (index.ts:634-688)
CIWorkflowContent(cfg) ==
  {<<"on", "push", "main">>, <<"on", "push", "develop">>,
   <<"on", "pull_request", "main">>, <<"on", "pull_request", "develop">>,
   <<"jobs", "test">>, <<"jobs", "test", "runs-on", "ubuntu-latest">>}
  \cup (IF cfg.features.docker
        THEN {<<"jobs", "docker">>, <<"jobs", "docker", "runs-on", "ubuntu-latest">>,
              <<"jobs", "docker", "needs", "test">>,
              <<"jobs", "docker", "if", "github.ref == 'refs/heads/main'">>}
        ELSE {})

\* index.ts:709-834
ReadmeContent(cfg) ==
  {<<"title">> \o Val(cfg.name), <<"commands", cfg.packageManager>>}
  \cup (IF cfg.features.docker THEN {<<"section", "docker">>} ELSE {})
  \cup (IF cfg.features.dockerCompose THEN {<<"commands", "docker:up">>} ELSE {})
  \cup (IF cfg.features.auth THEN {<<"section", "auth">>} ELSE {})
  \cup (IF cfg.features.openapi THEN {<<"section", "openapi">>} ELSE {})
  \cup (IF cfg.features.observability THEN {<<"section", "observability">>} ELSE {})

(***************************************************************************)
(* The operations of each step, in the order the code performs them.       *)
(***************************************************************************)
\* index.ts:170-178
CreateProjectStructureOps ==
  <<mkdirSync({Root}), mkdirSync({"src"}), mkdirSync({"src/meta"}),
    mkdirSync({"src/middleware"}), mkdirSync({"src/routes"}),
    mkdirSync({"src/handlers"}), mkdirSync({"src/config"}),
    mkdirSync({"tests", "tests/integration"}), mkdirSync({"tests", "tests/unit"})>>

\* index.ts:193-221
CopyTemplateFilesOps(d, name, tier, templateExists, found) ==
  IF ~templateExists THEN <<>>
  ELSE (IF "src" \in found
        THEN (IF <<name, "src">> \in d
              THEN <<RmRf(name, "rm -rf src", UnderSrc)>> ELSE <<>>)
             \o <<cpSync(TemplateSrc, TemplateSrcFiles, tier)>>
        ELSE <<>>)
       \o (IF "tests" \in found
           THEN (IF <<name, "tests">> \in d
                 THEN <<RmRf(name, "rm -rf tests", UnderTests)>> ELSE <<>>)
                \o <<cpSync(TemplateTests, TemplateTestsFiles, tier)>>
           ELSE <<>>)

\* index.ts:311-314
GeneratePackageJsonOps(cfg) == <<writeFileSync("package.json", PackageJsonContent(cfg))>>

\* index.ts:355-492
GenerateConfigFilesOps(cfg, chmodWorks) ==
  <<writeFileSync("tsconfig.json", Static), writeFileSync("eslint.config.js", Static),
    writeFileSync(".prettierrc", Static), writeFileSync(".gitignore", Static),
    writeFileSync(".env.example", EnvExampleContent(cfg)), mkdirSync({".husky"}),
    writeFileSync(".husky/pre-commit", Static), writeFileSync(".husky/commit-msg", Static),
    ChmodHooks(chmodWorks),
    writeFileSync(".lintstagedrc", Static), writeFileSync("commitlint.config.js", Static)>>

\* the build file written whenever the step has anything to write
GenerateDockerFilesOpsEitherFlag(cfg) ==
  <<writeFileSync("Dockerfile", DockerfileContent), writeFileSync(".dockerignore", Static)>>
  \o (IF cfg.features.dockerCompose
      THEN <<writeFileSync("docker-compose.yml", ComposeContent(cfg))>> ELSE <<>>)

\* index.ts:511-612
GenerateDockerFilesOps(cfg) ==
  (IF cfg.features.docker
   THEN <<writeFileSync("Dockerfile", DockerfileContent),
          writeFileSync(".dockerignore", Static)>>
   ELSE <<>>)
  \o (IF cfg.features.dockerCompose
      THEN <<writeFileSync("docker-compose.yml", ComposeContent(cfg))>> ELSE <<>>)

\* index.ts:630-695
GenerateCIFilesOps(cfg) ==
  IF cfg.features.ci = "github"
  THEN <<mkdirSync({".github", ".github/workflows"}),
         writeFileSync(".github/workflows/ci.yml", CIWorkflowContent(cfg))>>
  ELSE <<>>

\* index.ts:836, 934
GenerateREADMEOps(cfg) ==
  <<writeFileSync("README.md", ReadmeContent(cfg)), writeFileSync("ARCHITECTURE.md", Static)>>

\* index.ts:953-958
InstallCommand(pm) ==
  CASE pm = "npm" -> "npm install"
    [] pm = "pnpm" -> "pnpm install"
    [] pm = "yarn" -> "yarn"
    [] pm = "bun" -> "bun install"

\* index.ts:960-963
InstallDependenciesOps(cfg) ==
  <<ExecOp(InstallCommand(cfg.packageManager), {}, {"node_modules"})>>

\* git commit exits nonzero when there is nothing to commit, which is the case
\* once the commit of the staged tree exists
GitCommit ==
  [ExecOp("git commit", {}, {".git/HEAD-commit"}) EXCEPT !.refuses = {".git/HEAD-commit"}]

\* the commit made whatever config.gitCommit says
InitializeGitOpsAlwaysCommit(cfg) ==
  <<ExecOp("git init", {}, {".git"}), ExecOp("git add .", {}, {".git/index"}), GitCommit>>

\* index.ts:983-990
InitializeGitOps(cfg) ==
  <<ExecOp("git init", {}, {".git"}), ExecOp("git add .", {}, {".git/index"})>>
  \o (IF Truthy(cfg.gitCommit) THEN <<GitCommit>> ELSE <<>>)


(***************************************************************************)
(* The nine steps (index.ts:165-1001) and the loop that runs them          *)
(* (index.ts:1054-1075).                                                   *)
(***************************************************************************)
NumSteps == 9

\* the text each step hands to spinner.fail
StepFailMsg(k) ==
  CASE k = 1 -> "Failed to create project structure"
    [] k = 2 -> "Failed to copy template files"
    [] k = 3 -> "Failed to generate package.json"
    [] k = 4 -> "Failed to generate configuration files"
    [] k = 5 -> "Failed to generate Docker files"
    [] k = 6 -> "Failed to generate CI/CD files"
    [] k = 7 -> "Failed to generate documentation"
    [] k = 8 -> "Failed to install dependencies"
    [] k = 9 -> "Failed to initialize git repository"

Min(a, b) == IF a < b THEN a ELSE b

\* One call of a step function: the operations run in order; either all of
\* them complete and the step returns true, or one throws, the catch block
\* prints the step's failure and the step returns false.  An operation throws
\* when the environment makes it fail or when its command refuses.
RunStep(k, ops, okMsgs, failMsgs) ==
  /\ pc = "steps"
  /\ stepIdx = k
  /\ invoked' = Append(invoked, k)
  /\ LET name == ProjectDir IN
     \/ /\ \A n \in 1..Len(ops) : ~Refused(DiskAfter(disk, name, ops, n - 1), name, ops[n])
        /\ disk' = DiskAfter(disk, name, ops, Len(ops))
        /\ modes' = ModesAfter(modes, name, ops, Len(ops))
        /\ contents' = ContentsAfter(contents, name, ops, Len(ops))
        /\ cmds' = CmdsAfter(cmds, ops, Len(ops))
        /\ raised' = RaisedAfter(raised, k, ops, Len(ops))
        /\ out' = out \o okMsgs
        /\ returned' = Append(returned, TRUE)
        /\ stepIdx' = k + 1
        /\ pc' = "steps"
     \/ \E n \in 0..(Len(ops) - 1) :
          LET refused == Refused(DiskAfter(disk, name, ops, n), name, ops[n + 1]) IN
          /\ n <= MaxPartial \/ refused
          /\ ops[n + 1].throws
          /\ \A m \in 1..n : ~Refused(DiskAfter(disk, name, ops, m - 1), name, ops[m])
          /\ \E left \in PartialOutputs(ops[n + 1]) :
               disk' = DiskAfter(disk, name, ops, n) \cup In(name, left)
          /\ modes' = ModesAfter(modes, name, ops, n)
          /\ contents' = ContentsAfter(contents, name, ops, n)
          /\ cmds' = CmdsAfter(cmds, ops, n) \o ops[n + 1].cmds
          /\ raised' = RaisedAfter(raised, k, ops, n)
                         \cup {Exception(k, ops[n + 1].cmds, FALSE, refused)}
          /\ out' = out \o failMsgs
          /\ returned' = Append(returned, FALSE)
          /\ stepIdx' = k
          /\ pc' = "failed"
  /\ UNCHANGED <<retry, argv, promptError, answers, config, exitCode>>

\* index.ts:165-187
createProjectStructure ==
  /\ pc = "steps"
  /\ stepIdx = 1
  /\ RunStep(1, CreateProjectStructureOps,
          <<"Created project structure">>,
          <<StepFailMsg(1), ErrorDetail>>)

\* the subdirectories a template directory may hold
TemplateParts == {"src", "tests"}

\* index.ts:189-230; whether the template directory of the tier exists, and
\* which of its subdirectories it holds, is the environment's
copyTemplateFiles ==
  /\ pc = "steps"
  /\ stepIdx = 2
  /\ \E templateExists \in BOOLEAN, found \in SUBSET TemplateParts :
    /\ templateExists <=> found # {}
    /\ RunStep(2, CopyTemplateFilesOps(disk, ProjectDir, Cfg.template, templateExists, found),
            <<"Copied template files">>,
            <<StepFailMsg(2), ErrorDetail>>)

\* index.ts:232-323
generatePackageJson ==
  /\ pc = "steps"
  /\ stepIdx = 3
  /\ RunStep(3, GeneratePackageJsonOps(Cfg),
          <<"Generated package.json">>,
          <<StepFailMsg(3), ErrorDetail>>)

\* index.ts:325-501; whether chmod works is the platform's
generateConfigFiles ==
  /\ pc = "steps"
  /\ stepIdx = 4
  /\ \E chmodWorks \in BOOLEAN :
    RunStep(4, GenerateConfigFilesOps(Cfg, chmodWorks),
            <<"Generated configuration files">>,
            <<StepFailMsg(4), ErrorDetail>>)

\* index.ts:503-620
generateDockerFiles ==
  /\ pc = "steps"
  /\ stepIdx = 5
  /\ IF ~Cfg.features.docker /\ ~Cfg.features.dockerCompose
     THEN RunStep(5, <<>>, <<>>, <<>>)
     ELSE RunStep(5, GenerateDockerFilesOps(Cfg),
                  <<"Generated Docker files">>,
                  <<StepFailMsg(5), ErrorDetail>>)

\* index.ts:622-703
generateCIFiles ==
  /\ pc = "steps"
  /\ stepIdx = 6
  /\ IF Cfg.features.ci = "none"
     THEN RunStep(6, <<>>, <<>>, <<>>)
     ELSE RunStep(6, GenerateCIFilesOps(Cfg),
                  <<"Generated CI/CD files">>,
                  <<StepFailMsg(6), ErrorDetail>>)

\* index.ts:705-943
generateREADME ==
  /\ pc = "steps"
  /\ stepIdx = 7
  /\ RunStep(7, GenerateREADMEOps(Cfg),
          <<"Generated documentation">>,
          <<StepFailMsg(7), ErrorDetail>>)

\* the catch block of the other steps, without the manual install command
installDependenciesPlainCatch ==
  /\ pc = "steps"
  /\ stepIdx = 8
  /\ IF ~Cfg.install
     THEN RunStep(8, <<>>, <<>>, <<>>)
     ELSE RunStep(8, InstallDependenciesOps(Cfg),
                  <<"Installed dependencies">>,
                  <<StepFailMsg(8), ErrorDetail>>)

\* the package manager run whatever config.install says
installDependenciesAlways ==
  /\ pc = "steps"
  /\ stepIdx = 8
  /\ RunStep(8, InstallDependenciesOps(Cfg),
             <<"Installed dependencies">>,
             <<StepFailMsg(8), ManualInstallMsg, ManualInstallCmd(Cfg)>>)

\* index.ts:945-973
installDependencies ==
  /\ pc = "steps"
  /\ stepIdx = 8
  /\ IF ~Cfg.install
     THEN RunStep(8, <<>>, <<>>, <<>>)
     ELSE RunStep(8, InstallDependenciesOps(Cfg),
                  <<"Installed dependencies">>,
                  <<StepFailMsg(8), ManualInstallMsg, ManualInstallCmd(Cfg)>>)

\* index.ts:975-1001
initializeGit ==
  /\ pc = "steps"
  /\ stepIdx = 9
  /\ IF ~Cfg.git
     THEN RunStep(9, <<>>, <<>>, <<>>)
     ELSE RunStep(9, InitializeGitOps(Cfg),
                  IF Truthy(Cfg.gitCommit)
                  THEN <<"Initialized git repository with initial commit">>
                  ELSE <<"Initialized git repository">>,
                  <<StepFailMsg(9)>>)

\* the loop going on to the next step after a step returned false
MainAbortContinues ==
  /\ pc = "failed"
  /\ stepIdx < NumSteps
  /\ pc' = "steps"
  /\ stepIdx' = stepIdx + 1
  /\ UNCHANGED <<retry, raised, argv, disk, modes, contents, promptError, answers, config, invoked, returned, cmds,
                 out, exitCode>>

\* the loop calling the step that returned false once more
MainAbortRetries ==
  /\ pc = "failed"
  /\ pc' = "steps"
  /\ UNCHANGED <<retry, raised, argv, disk, modes, contents, promptError, answers, config, stepIdx,
                 invoked, returned, cmds, out, exitCode>>

\* the abort removing the partially generated project directory
MainAbortRollsBack ==
  /\ pc = "failed"
  /\ out' = Append(out, SetupFailedMsg)
  /\ Exit(1)
  /\ disk' = {e \in disk : e[1] # ProjectDir}
  /\ modes' = {e \in modes : e[1] # ProjectDir}
  /\ contents' = {e \in contents : e[1][1] # ProjectDir}
  /\ UNCHANGED <<retry, raised, argv, promptError, answers, config, stepIdx, invoked, returned,
                 cmds>>

\* a step returned false (index.ts:1068-1071)
MainAbort ==
  /\ pc = "failed"
  /\ out' = Append(out, SetupFailedMsg)
  /\ Exit(1)
  /\ UNCHANGED <<retry, raised, argv, disk, modes, contents, promptError, answers, config, stepIdx, invoked, returned, cmds>>

\* the loop is over: printNextSteps, and main returns (index.ts:1074-1075)
MainFinish ==
  /\ pc = "steps"
  /\ stepIdx = NumSteps + 1
  /\ out' = Append(out, SuccessMsg)
  /\ Exit(0)
  /\ UNCHANGED <<retry, raised, argv, disk, modes, contents, promptError, answers, config, stepIdx, invoked, returned, cmds>>

(***************************************************************************)
(* Specifications.                                                         *)
(***************************************************************************)
InitRest ==
  /\ modes = {}
  /\ contents = {}
  /\ raised = {}
  /\ retry = Undefined
  /\ promptError = Undefined
  /\ config = Undefined
  /\ stepIdx = 0
  /\ invoked = <<>>
  /\ returned = <<>>
  /\ cmds = <<>>
  /\ out = <<>>
  /\ exitCode = Running

\* a directory of one of the names may already be there
InitialDisks == {{}} \cup {{<<n, Root>>} : n \in Names}

\* `npm create filament` and `npm create filament <name>`
Init ==
  /\ argv \in {<<>>} \cup {<<n>> : n \in Names}
  /\ disk \in InitialDisks
  /\ pc = "main"
  /\ answers = NoAnswers
  /\ InitRest

Next ==
  \/ MainStart
  \/ PromptReject
  \/ PromptCancel
  \/ PromptAnswer
  \/ PostPromptCheck
  \/ createProjectStructure
  \/ copyTemplateFiles
  \/ generatePackageJson
  \/ generateConfigFiles
  \/ generateDockerFiles
  \/ generateCIFiles
  \/ generateREADME
  \/ installDependencies
  \/ initializeGit
  \/ MainAbort
  \/ MainFinish

Spec == Init /\ [][Next]_vars

\* `npm create filament <name> --<option>`, `npm create filament --<option>`,
\* and an empty name before the option, which leaves the name to the prompt
InitCli ==
  /\ argv \in {<<NameMyApi2, f>> : f \in Flags}
              \cup {<<FlagTemplateFull>>, <<NameEmpty, FlagNoInstall>>}
  /\ disk = {}
  /\ pc = "main"
  /\ answers = NoAnswers
  /\ InitRest

SpecCli == InitCli /\ [][Next]_vars

\* the resolution of index.ts:122-162 applied to an arbitrary answer record
RawAnswers ==
  [name : {Undefined, Some(NameMyApi2)},
   template : Templates,
   additionalFeatures : {Undefined} \cup {Some(S) : S \in SUBSET FeatureTokens},
   packageManager : PackageManagers,
   git : BOOLEAN,
   gitCommit : {Undefined, Some(TRUE), Some(FALSE)}]

InitResolve ==
  /\ argv \in {<<>>, <<NameMyApi2>>}
  /\ disk = {}
  /\ pc = "resolve"
  /\ InitRest
  /\ answers \in RawAnswers

Resolve ==
  /\ pc = "resolve"
  /\ config' = Some(ResolveConfig(ProjectName, answers))
  /\ pc' = "resolved"
  /\ UNCHANGED <<retry, raised, argv, disk, modes, contents, promptError, answers, stepIdx, invoked, returned, cmds, out, exitCode>>

NextResolve == Resolve

SpecResolve == InitResolve /\ [][NextResolve]_vars

\* the values of the ProjectConfig interface (index.ts:14-29) the steps are
\* written against, for one name, tier and package manager
ProjectConfigs ==
  [name : {Some(NameMyApi2)},
   template : {"api"},
   features : [docker : BOOLEAN, dockerCompose : BOOLEAN, ci : {"github", "gitlab", "none"},
               openapi : {FALSE}, auth : BOOLEAN, observability : BOOLEAN],
   packageManager : {"npm"},
   git : BOOLEAN,
   gitCommit : {Some(TRUE), Some(FALSE)},
   install : BOOLEAN]

\* the loop of main entered with one of the configurations and a free project
\* directory (index.ts:1054-1072)
InitLoop(configs) ==
  /\ argv = <<NameMyApi2>>
  /\ disk = {}
  /\ modes = {}
  /\ contents = {}
  /\ raised = {}
  /\ retry = Undefined
  /\ pc = "steps"
  /\ promptError = Undefined
  /\ answers = NoAnswers
  /\ config \in {Some(c) : c \in configs}
  /\ stepIdx = 1
  /\ invoked = <<>>
  /\ returned = <<>>
  /\ cmds = <<>>
  /\ out = <<>>
  /\ exitCode = Running

InitPipeline == InitLoop(ProjectConfigs)

NextPipeline ==
  \/ createProjectStructure
  \/ copyTemplateFiles
  \/ generatePackageJson
  \/ generateConfigFiles
  \/ generateDockerFiles
  \/ generateCIFiles
  \/ generateREADME
  \/ installDependencies
  \/ initializeGit
  \/ MainAbort
  \/ MainFinish

SpecPipeline == InitPipeline /\ [][NextPipeline]_vars

\* every run: those started from the command line and resolved by the
\* prompt, and the loop entered with any configuration of the interface
InitRuns == Init \/ InitPipeline

SpecRuns == InitRuns /\ [][Next]_vars

\* the disk and the contents when step k is called once more
Snapshot(k) == [step |-> k, disk |-> disk, contents |-> contents]

\* a step function called once more right after it returned true, with the
\* same arguments (index.ts:1057-1065 holds the calls)
RetryStep ==
  /\ pc = "steps"
  /\ retry = Undefined
  /\ stepIdx \in 2..(NumSteps + 1)
  /\ retry' = Some(Snapshot(stepIdx - 1))
  /\ stepIdx' = stepIdx - 1
  /\ UNCHANGED <<raised, argv, disk, modes, contents, pc, promptError, answers, config, invoked,
                 returned, cmds, out, exitCode>>

\* the configurations of the retried runs
RetryConfigs ==
  {c \in ProjectConfigs :
     /\ c.features.ci # "gitlab"
     /\ ~c.features.observability
     /\ c.features.dockerCompose => c.features.docker}

InitRetry == InitLoop(RetryConfigs)

NextRetry ==
  \/ NextPipeline
  \/ RetryStep

SpecRetry == InitRetry /\ [][NextRetry]_vars

\* every resolution: of the answers of the prompt in a run, and of an
\* arbitrary answer record
InitResolutions == Init \/ InitResolve

NextResolutions ==
  \/ Next
  \/ Resolve

SpecResolutions == InitResolutions /\ [][NextResolutions]_vars

\* what a run that failed at step k leaves behind: the name of its project
\* and the disk as it is
FailedRun(k) ==
  [step |-> k, name |-> ProjectDir, disk |-> disk, modes |-> modes, contents |-> contents]

\* the ways of starting the program for this project name: on the command
\* line, or typed at the prompt
Invocations(name) == {<<name>>, <<>>}

\* the user starts the program a second time after a run in which a step
\* returned false and main exited with 1 (index.ts:1068-1071): a new process,
\* the disk as the first run left it
Rerun ==
  /\ pc = "exited"
  /\ exitCode = 1
  /\ retry = Undefined
  /\ IsDefined(config)
  /\ Len(returned) > 0
  /\ ~returned[Len(returned)]
  /\ \E a \in Invocations(ProjectDir) :
       /\ a = <<>> => stepIdx <= MaxRerunStep
       /\ argv' = a
  /\ retry' = Some(FailedRun(stepIdx))
  /\ pc' = "main"
  /\ promptError' = Undefined
  /\ answers' = NoAnswers
  /\ config' = Undefined
  /\ stepIdx' = 0
  /\ invoked' = <<>>
  /\ returned' = <<>>
  /\ cmds' = <<>>
  /\ raised' = {}
  /\ out' = <<>>
  /\ exitCode' = Running
  /\ UNCHANGED <<disk, modes, contents>>

NextRerun ==
  \/ Next
  \/ Rerun

SpecRerun == Init /\ [][NextRerun]_vars


(***************************************************************************)
(* Properties.                                                             *)
(***************************************************************************)
\* the text of every line printed so far
Printed == {out[i] : i \in 1..Len(out)}

\* the commands handed to execSync so far
Executed == {cmds[i] : i \in 1..Len(cmds)}

\* step k was invoked and returned false
StepFailed(k) ==
  \E i \in 1..Len(returned) : invoked[i] = k /\ ~returned[i]

\* the process ended on one of the two "already exists" checks
ConflictExit ==
  /\ pc = "exited"
  /\ exitCode = 1
  /\ invoked = <<>>
  /\ Len(out) > 0
  /\ out[Len(out)] = DirExistsMsg

\* C1: when step k reports failure it is the last step invoked in the run
\* (none of the steps k+1..9 is invoked afterwards), and the failure that is
\* printed is the one of step k and of no other step.
C1_PipelineAbort ==
  \A k \in 1..NumSteps :
    StepFailed(k) =>
      /\ invoked = [i \in 1..k |-> i]
      /\ \A i \in 1..(k - 1) : returned[i]
      /\ \A j \in 1..NumSteps : (StepFailMsg(j) \in Printed) <=> (j = k)

\* C1 witness: a step in the middle of the pipeline failed and the run ended
C1_Witness ==
  /\ pc = "exited"
  /\ StepFailed(4)

\* C2 as stated: a failure of the install step does not end the run as failed
C2_InstallFailureNotFatal ==
  (pc = "exited" /\ StepFailed(8)) => exitCode = 0

\* C2 (amended): when the install step fails, the manual install command is
\* printed as a remediation, and the run is aborted as for any other step:
\* the version-control step is not invoked and the exit code is 1.
C2_InstallFailureAborts ==
  StepFailed(8) =>
    /\ ManualInstallMsg \in Printed
    /\ ManualInstallCmd(Cfg) \in Printed
    /\ invoked[Len(invoked)] = 8
    /\ pc \in {"failed", "exited"}
    /\ pc = "exited" => (exitCode = 1 /\ out[Len(out)] = SetupFailedMsg)

\* C2 witness: the package manager failed and the process has exited
C2_Witness ==
  /\ pc = "exited"
  /\ StepFailed(8)
  /\ InstallCommand(Cfg.packageManager) \in Executed

\* C3: a resolved configuration with git = false has gitCommit = false
C3_GitFalseForcesCommitFalse ==
  (IsDefined(config) /\ ~Cfg.git) => Cfg.gitCommit = Some(FALSE)

\* C4: no pipeline step runs with a project name that fails the pattern
C4_NoStepWithInvalidName ==
  Len(invoked) > 0 => MatchesNamePattern(ProjectDir)

\* C5: a directory found at the check before the prompt or at the check after
\* it ends the run with the conflict error and no step invoked, and the first
\* step is invoked only from the passed second check, the directory absent.
C5_FreshDirectory ==
  [][/\ (pc = "main" /\ NonEmpty(ProjectName) /\ existsSync(disk, Val(ProjectName)))
          => ConflictExit'
     /\ (pc = "prompted" /\ existsSync(disk, ProjectDir)) => ConflictExit'
     /\ (pc' = "steps" /\ pc # "steps")
          => (pc = "prompted" /\ ~existsSync(disk, ProjectDir) /\ invoked = <<>>)
     /\ (invoked' # invoked)
          => (pc = "steps" /\ (invoked = <<>> => ~existsSync(disk, ProjectDir)))]_vars

\* C5 witness: the directory named at the prompt was found by the second check
C5_Witness ==
  /\ ConflictExit
  /\ IsDefined(config)
  /\ argv = <<>>

\* C6: the exit code is nonzero when the directory exists, when the name fails
\* validation and when a step fails, and zero when all nine steps complete
C6_ExitCodes ==
  pc = "exited" =>
    /\ (Len(out) > 0 /\ out[Len(out)] = DirExistsMsg) => exitCode # 0
    /\ (IsDefined(config) /\ ~MatchesNamePattern(ProjectDir)) => exitCode # 0
    /\ (\E k \in 1..NumSteps : StepFailed(k)) => exitCode # 0
    /\ (Len(returned) = NumSteps /\ \A i \in 1..NumSteps : returned[i]) => exitCode = 0


\* the fixed feature set of the api and full tiers
TierDefault(template) ==
  [docker |-> TRUE, dockerCompose |-> TRUE, ci |-> "github",
   openapi |-> TRUE, auth |-> TRUE, observability |-> (template = "full")]

\* C7: for the api and full tiers the resolved features are the tier's fixed
\* set whatever additionalFeatures holds, and replacing additionalFeatures by
\* any other value resolves to the same features.
C7_TierDefaultsAuthoritative ==
  (pc = "resolved" /\ answers.template \in {"api", "full"}) =>
    /\ Cfg.features = TierDefault(answers.template)
    /\ \A other \in {Undefined} \cup {Some(S) : S \in SUBSET FeatureTokens} :
         ResolveFeatures([answers EXCEPT !.additionalFeatures = other]) = Cfg.features

\* C7 witness: the api tier resolved with a selection that names observability
C7_Witness ==
  /\ pc = "resolved"
  /\ answers.template = "api"
  /\ answers.additionalFeatures = Some({"observability"})

\* C8: for the minimal tier with a selection S each flag is the membership of
\* its token in S; with no selection, or an empty one, every flag is false and
\* ci is none.
C8_MinimalMembership ==
  (pc = "resolved" /\ answers.template = "minimal") =>
    LET f == Cfg.features IN
    /\ IsDefined(answers.additionalFeatures) =>
         LET S == Val(answers.additionalFeatures) IN
         /\ f.docker = ("docker" \in S)
         /\ f.dockerCompose = ("dockerCompose" \in S)
         /\ f.ci = (IF "ci-github" \in S THEN "github" ELSE "none")
         /\ f.openapi = ("openapi" \in S)
         /\ f.auth = ("auth" \in S)
         /\ f.observability = ("observability" \in S)
    /\ answers.additionalFeatures \in {Undefined, Some({})} =>
         /\ f.ci = "none"
         /\ ~(f.docker \/ f.dockerCompose \/ f.openapi \/ f.auth \/ f.observability)

\* C8 witness: the minimal tier resolved with the selection {docker, auth}
C8_Witness ==
  /\ pc = "resolved"
  /\ answers.template = "minimal"
  /\ answers.additionalFeatures = Some({"docker", "auth"})
  /\ Cfg.features.docker
  /\ Cfg.features.auth

\* C9: once a step has failed nothing on disk changes any more: the abort path
\* removes and changes no entry, so what the steps wrote stays as it was when
\* the failing step returned.
C9_NoRollback ==
  [][(pc \in {"failed", "exited"})
       => (disk' = disk /\ modes' = modes /\ contents' = contents)]_vars

\* C9 witness: the run was aborted at the fourth step with the manifest of the
\* third step and the first file of the fourth on disk
C9_Witness ==
  /\ pc = "exited"
  /\ StepFailed(4)
  /\ <<ProjectDir, "package.json">> \in disk
  /\ <<ProjectDir, "tsconfig.json">> \in disk

\* the words of the command line
Words == {argv[i] : i \in 1..Len(argv)}

\* C10: a configuration resolved in a run started with --template=full is the
\* full tier's, and one resolved in a run started with --no-install has
\* install = false and the run invokes no package manager
C10_FlagsResolveConfig ==
  IsDefined(config) =>
    /\ FlagTemplateFull \in Words =>
         (Cfg.template = "full" /\ Cfg.features = TierDefault("full"))
    /\ FlagNoInstall \in Words =>
         (~Cfg.install /\ \A pm \in PackageManagers : InstallCommand(pm) \notin Executed)

\* the files of the project directory that hold a copy of a file of the
\* template of the tier
TemplateCopiesIn(held, tier) ==
  {e[1][2] : e \in {c \in held :
                      c[1][1] = ProjectDir /\ <<"template", tier, c[1][2]>> \in c[2]}}

TemplateCopies(tier) == TemplateCopiesIn(contents, tier)

\* C11: the template-copy step never reports success without having copied
\* the template tree of the tier: once the second step has returned true, the
\* project directory holds files copied from the template of the tier.
C11_CopiedOrFailed ==
  (Len(returned) >= 2 /\ returned[2]) => TemplateCopies(Cfg.template) # {}

\* the version-control commands of index.ts:983-987
GitCommands == {"git init", "git add .", "git commit"}

IsGitCommand(c) == c \in GitCommands

\* the version-control commands run so far, in the order they were run
GitRun == SelectSeq(cmds, IsGitCommand)

\* C12: with config.git false no version-control command is ever run,
\* whatever config.gitCommit is; with config.git true a version-control step
\* that returned true has run git init, then git add, and after them git commit
\* exactly when config.gitCommit is true; no version-control command runs
\* before the ninth step.
C12_GitCommands ==
  IsDefined(config) =>
    /\ ~Cfg.git => GitRun = <<>>
    /\ Len(invoked) < NumSteps => GitRun = <<>>
    /\ (Cfg.git /\ Len(returned) = NumSteps /\ returned[NumSteps]) =>
         GitRun = IF Truthy(Cfg.gitCommit)
                  THEN <<"git init", "git add .", "git commit">>
                  ELSE <<"git init", "git add .">>
    /\ "git commit" \in Executed => (Cfg.git /\ Truthy(Cfg.gitCommit))

\* C12 witness: a finished run with git and gitCommit true, whose commit was
\* made
C12_Witness ==
  /\ pc = "exited"
  /\ IsDefined(config)
  /\ Len(returned) = NumSteps
  /\ Cfg.git
  /\ Truthy(Cfg.gitCommit)
  /\ "git commit" \in Executed

\* the step of this number was invoked and returned true
StepSucceeded(k) == Len(returned) >= k /\ returned[k]

\* what the file of this path in the project directory holds, if it is there
FileContents(path) == {e[2] : e \in {c \in contents : c[1] = <<ProjectDir, path>>}}

\* C13: once the container step has returned true the Dockerfile is in the
\* project directory exactly when features.docker is true, whatever
\* features.dockerCompose is, and what it holds has a USER instruction naming a
\* user other than root and a HEALTHCHECK instruction.
C13_Dockerfile ==
  (IsDefined(config) /\ StepSucceeded(5)) =>
    /\ (<<ProjectDir, "Dockerfile">> \in disk) <=> Cfg.features.docker
    /\ Cfg.features.docker =>
         /\ FileContents("Dockerfile") # {}
         /\ \A text \in FileContents("Dockerfile") :
              /\ \E i \in text : i[1] = "USER" /\ i[2] # "root"
              /\ \E i \in text : i[1] = "HEALTHCHECK"

\* C13 witness: the container step returned true with docker true and
\* dockerCompose false, and the Dockerfile is there
C13_Witness ==
  /\ IsDefined(config)
  /\ StepSucceeded(5)
  /\ Cfg.features.docker
  /\ ~Cfg.features.dockerCompose
  /\ <<ProjectDir, "Dockerfile">> \in disk
  /\ <<"USER", "nodejs">> \in UNION FileContents("Dockerfile")

\* the services of a compose definition
Services(text) == {p[2] : p \in {q \in text : q[1] = "services"}}

\* the services this service of a compose definition depends on
DependsOn(text, service) ==
  {p[4] : p \in {q \in text : /\ Len(q) = 4
                               /\ q[1] = "services"
                               /\ q[2] = service
                               /\ q[3] = "depends_on"}}

\* C14: once the container step has returned true, with dockerCompose false
\* there is no compose file; with dockerCompose true there is one, and its
\* services are app and redis with app depending on redis when features.auth is
\* true, and app alone, depending on nothing, when features.auth is false.
C14_ComposeServices ==
  (IsDefined(config) /\ StepSucceeded(5)) =>
    /\ (<<ProjectDir, "docker-compose.yml">> \in disk) <=> Cfg.features.dockerCompose
    /\ Cfg.features.dockerCompose =>
         /\ FileContents("docker-compose.yml") # {}
         /\ \A text \in FileContents("docker-compose.yml") :
              IF Cfg.features.auth
              THEN /\ Services(text) = {"app", "redis"}
                   /\ DependsOn(text, "app") = {"redis"}
                   /\ DependsOn(text, "redis") = {}
              ELSE /\ Services(text) = {"app"}
                   /\ DependsOn(text, "app") = {}

\* C14 witness: a compose file written without auth, holding the one service
C14_Witness ==
  /\ IsDefined(config)
  /\ StepSucceeded(5)
  /\ Cfg.features.dockerCompose
  /\ ~Cfg.features.auth
  /\ \E text \in FileContents("docker-compose.yml") : Services(text) = {"app"}

\* the files of the project directory that hold a workflow with a test job
Workflows == {c \in contents : c[1][1] = ProjectDir /\ <<"jobs", "test">> \in c[2]}

\* the workflow has the image-build job, which needs the test job and runs on
\* the main branch only
HasImageBuildJob(text) ==
  /\ <<"jobs", "docker">> \in text
  /\ <<"jobs", "docker", "needs", "test">> \in text
  /\ <<"jobs", "docker", "if", "github.ref == 'refs/heads/main'">> \in text

Surfaced(e) ==
  /\ ~e.ignored
  /\ Len(returned) >= e.step
  /\ ~returned[e.step]
  /\ StepFailMsg(e.step) \in Printed

\* C16: no error is swallowed: every exception thrown by an operation of a
\* step, the chmod of the hook scripts included, makes the step print its
\* failure message and return false.
C16_NoErrorSwallowed == \A e \in raised : Surfaced(e)

\* the second call of the retried step found the template directory as the
\* first call did
SameTemplate(first) ==
  TemplateCopiesIn(first.contents, Cfg.template) = TemplateCopies(Cfg.template)

\* the second call of the step failed because the environment made one of its
\* operations fail, not because a command refused what the first call left
EnvironmentFault(k) == \E e \in raised : e.step = k /\ ~e.ignored /\ ~e.refused

\* C17: each step is idempotent on retry: a step called a second time right
\* after it returned true, with the same configuration, project directory and
\* environment, returns true again and leaves the files and their contents as
\* they were after the first call.
C17_RetryIdempotent ==
  (IsDefined(retry) /\ Len(invoked) = Val(retry).step + 1) =>
    LET first == Val(retry)
        second == first.step + 1
    IN  IF returned[second]
        THEN SameTemplate(first) => (disk = first.disk /\ contents = first.contents)
        ELSE EnvironmentFault(first.step)

\* C19: the steps are invoked in the fixed order, the first to the ninth, each
\* at most once; every invoked step has returned before anything else
\* happens, and a step is invoked only when every step before it has returned
\* true.
C19_StrictOrder ==
  /\ Len(invoked) <= NumSteps
  /\ invoked = [i \in 1..Len(invoked) |-> i]
  /\ Len(returned) = Len(invoked)
  /\ \A i \in 1..(Len(returned) - 1) : returned[i]

\* C19 witness: a finished run in which all nine steps were invoked
C19_Witness ==
  /\ pc = "exited"
  /\ invoked = <<1, 2, 3, 4, 5, 6, 7, 8, 9>>
  /\ \A i \in 1..NumSteps : returned[i]

\* the configuration is the resolution of answers the prompt returned
Interactive ==
  /\ IsDefined(config)
  /\ config = Some(ResolveConfig(ProjectName, answers))
  /\ answers \in AskedAnswers(ProjectName)

\* the install commands run so far
InstallsRun == {InstallCommand(pm) : pm \in PackageManagers} \cap Executed

\* C20: once the install step has been invoked, the install command of the
\* configured package manager has been run exactly when config.install is
\* true, and no other install command ever is; every configuration resolved
\* from the prompt has install true, so a prompted run whose install step was
\* invoked has run the package manager.
C20_InstallIffConfigured ==
  IsDefined(config) =>
    /\ InstallsRun \subseteq {InstallCommand(Cfg.packageManager)}
    /\ Len(invoked) < 8 => InstallsRun = {}
    /\ Len(invoked) >= 8 => ((InstallsRun # {}) <=> Cfg.install)
    /\ Interactive => Cfg.install
    /\ (Interactive /\ Len(invoked) >= 8) => InstallsRun # {}

\* C20 witness: a prompted run with pnpm whose install step ran pnpm install
C20_Witness ==
  /\ Interactive
  /\ Len(invoked) >= 8
  /\ Cfg.packageManager = "pnpm"
  /\ "pnpm install" \in Executed

\* the run is for the project name of the failed run: given on the command
\* line, or resolved from the prompt
SameName(first) ==
  \/ NonEmpty(ProjectName) /\ Val(ProjectName) = first.name
  \/ IsDefined(config) /\ ProjectDir = first.name

\* C21: a second run for the project name of a run that failed at a step and
\* left its project directory on disk invokes no step and leaves the disk as
\* the failed run left it, and when it has ended it has ended on the
\* directory-exists error with exit code 1: no generation for that name
\* succeeds while the directory is there.
C21_RerunStopsAtCheck ==
  IsDefined(retry) =>
    LET first == Val(retry) IN
    (<<first.name, Root>> \in first.disk /\ SameName(first)) =>
      /\ invoked = <<>>
      /\ disk = first.disk
      /\ modes = first.modes
      /\ contents = first.contents
      /\ pc \in {"main", "prompt", "prompted", "exited"}
      /\ pc = "exited" => (exitCode = 1 /\ out = <<DirExistsMsg>>)

\* C21 witness: the run failed at the manifest step, and the second run, the
\* name typed at the prompt, ended on the directory-exists error with the
\* copied template still there
C21_Witness ==
  /\ IsDefined(retry)
  /\ Val(retry).step = 2
  /\ argv = <<>>
  /\ IsDefined(config)
  /\ ProjectDir = Val(retry).name
  /\ pc = "exited"
  /\ exitCode = 1
  /\ out = <<DirExistsMsg>>
  /\ <<ProjectDir, "src">> \in disk

\* the entries generateCIFiles can make (index.ts:631-691)
CIFiles == {".github", ".github/workflows", ".github/workflows/ci.yml"}

\* those of them that are in the project directory
CIFilesWritten == {f \in CIFiles : <<ProjectDir, f>> \in disk}

\* C22: every configuration the resolver produces has features.ci github or
\* none, never gitlab, whatever the template and the selection; and in a run
\* with such a configuration a CI step that returned true has written the
\* GitHub workflow file, when ci is github, or nothing.
C22_ResolvedCiNeverGitlab ==
  IsDefined(config) =>
    /\ Cfg.features.ci \in {"github", "none"}
    /\ StepSucceeded(6) =>
         IF Cfg.features.ci = "github"
         THEN /\ CIFilesWritten = CIFiles
              /\ {w[1][2] : w \in Workflows} = {".github/workflows/ci.yml"}
         ELSE /\ CIFilesWritten = {}
              /\ Workflows = {}

\* C22 witness: the minimal tier with the GitHub Actions selection, and the
\* workflow file written by the CI step
C22_Witness ==
  /\ IsDefined(config)
  /\ Cfg.template = "minimal"
  /\ answers.additionalFeatures = Some({"ci-github"})
  /\ Cfg.features.ci = "github"
  /\ StepSucceeded(6)
  /\ <<ProjectDir, ".github/workflows/ci.yml">> \in disk

\* the cancellation message has been printed
Cancelled == CancelledMsg \in Printed

\* C23: the user cancelling at the prompt ends the process with exit code 0
\* there and then: no configuration has been resolved, the second directory
\* check is not reached, no step has been invoked, no command run, the disk is
\* as the run found it, and nothing happens afterwards.
C23_CancelExitsClean ==
  [][/\ (~Cancelled /\ Cancelled') =>
          /\ pc = "prompt"
          /\ pc' = "exited"
          /\ exitCode' = 0
          /\ config' = Undefined
          /\ invoked' = <<>>
          /\ cmds' = <<>>
          /\ disk' = disk
          /\ disk' \in InitialDisks
          /\ modes' = {}
          /\ contents' = {}
     /\ Cancelled => UNCHANGED vars]_vars

\* C23 witness: a run started without a name and cancelled at the prompt,
\* ended with exit code 0, no configuration and nothing on disk
C23_Witness ==
  /\ Cancelled
  /\ pc = "exited"
  /\ exitCode = 0
  /\ argv = <<>>
  /\ config = Undefined
  /\ disk = {}

====
